---- MODULE Spec2Model ----
(***************************************************************************)
(* A model of ranking/model.py: the adjacency index (GraphBuilder), the    *)
(* edge-weight normaliser (normalize_edges), the association miners        *)
(* (get_rules_by_lift, get_frequent_topic_pairs), the keyword layer        *)
(* builder and the graph assembler (ModelBuilder.assemble_layers).         *)
(*                                                                         *)
(* Each component has its own specification (SpecGraph, SpecNorm,          *)
(* SpecRules, SpecLayer, SpecAssemble); a specification leaves the other   *)
(* components' variables at their idle values.                             *)
(***************************************************************************)
EXTENDS Integers, Sequences, FiniteSets, TLC

VARIABLES
    \* GraphBuilder
    edges,      \* the edge relation given to __init__: a sequence of <<from, to>>
    citing,     \* self.citing: defaultdict(list), key -> sequence of ids
    cited,      \* self.cited:  defaultdict(list), key -> sequence of ids
    call,       \* the last query made on the index: [op, arg, ret]
    \* normalize_edges
    nedges,     \* the argument: a sequence of <<u, v, w>>
    nres,       \* the outcome of the call: [status, out]
    \* get_rules_by_lift / get_frequent_topic_pairs
    transactions,   \* the argument: a sequence of item sequences
    rres,           \* the outcome: [op, thr, freqs1, freqs2, rules]
    \* get_ngrams_layer_from_db
    rows,       \* the rows the store returns: a sequence of <<paper_id, ngram, value>>
    lres,       \* the outcome of the builder
    \* ModelBuilder.assemble_layers
    include_attributes, \* self.include_attributes
    pc,             \* the loop assemble_layers is in, "done" or "raised"
    pubs,           \* the publications read so far, as given
    next_id,        \* next_id
    graph_nodes,    \* graph.nodes: node id -> attributes
    graph_edges,    \* graph.edges: <<u, v>> -> weight
    pubs_ids, authors_ids, words_ids, venues_ids,   \* entity -> node id
    citation_edges, \* the citation edges (p1, p2, w) read so far
    layer_edges,    \* the other edges <<layer, x, y, w>> read so far
    \* ModelBuilder.get_authors_layer and the co-authorship miners
    authorships,    \* table authorships: a set of <<paper_id, author_id>>
    coauthorships,  \* table coauthorships: a set of <<author1, author2, npapers>>
    cres,           \* the outcome of the call: [op, arg, pre, status, out, ...]
    \* ModelBuilder.get_relevant_topics
    doc_topics,     \* the argument: the contribution of each topic, by topic index
    tres,           \* the outcome of the call: [op, ntop, above, status, out]
    \* ModelBuilder.get_pubs_layer
    graph_rows,     \* table graph: a sequence of <<citing, cited>>
    docs,           \* the documents index.search returns, as given
    edges_lookup,   \* self.edges_lookup: [citing, cited], two defaultdict(list)
    exclude_list,   \* exclude_list
    n_hops,         \* n_hops
    hop_nodes,      \* nodes
    hop_new_nodes,  \* new_nodes
    hop,            \* the number of iterations of the hop loop made so far
    visits,         \* per iteration: [frontier, before]
    pubs_res        \* the outcome of the call: [status, nodes, weighted_edges, doc_ids]

gvars == <<edges, citing, cited, call>>
nvars == <<nedges, nres>>
rvars == <<transactions, rres>>
lvars == <<rows, lres>>
avars == <<include_attributes, pc, pubs, next_id, graph_nodes, graph_edges,
           pubs_ids, authors_ids, words_ids, venues_ids, citation_edges, layer_edges>>
cvars == <<authorships, coauthorships, cres>>
tvars == <<doc_topics, tres>>
pvars == <<graph_rows, docs, edges_lookup, exclude_list, n_hops, hop_nodes,
           hop_new_nodes, hop, visits, pubs_res>>
vars == <<gvars, nvars, rvars, lvars, avars, cvars, tvars, pvars>>

----------------------------------------------------------------------------
(* Helpers *)

Range(s) == {s[i] : i \in 1..Len(s)}

\* All sequences over S of length at most n.
SeqsUpTo(S, n) == UNION {[1..k -> S] : k \in 0..n}

\* A real number (a float of the program) is a rational <<num, den>> with
\* den > 0.  x >= y:
RatGeq(x, y) == x[1] * y[2] >= y[1] * x[2]

\* x = y for rationals.
RatEq(x, y) == x[1] * y[2] = y[1] * x[2]

RECURSIVE GCD(_, _)
GCD(a, b) == IF b = 0 THEN a ELSE GCD(b, a % b)

\* x / y for rationals x >= 0 and y > 0, in lowest terms.
RatDivide(x, y) ==
    LET n == x[1] * y[2]
        d == x[2] * y[1]
    IN  <<n \div GCD(n, d), d \div GCD(n, d)>>

----------------------------------------------------------------------------
(* Identifiers.  An id is either a number or a string of digits; the value *)
(* <<"int", k>> is the number k and <<"str", k>> is its decimal string.    *)
(* In Python 1 != "1", and str(1) == str("1") == "1".                      *)

MaxId == 2

IntIds == {<<"int", k>> : k \in 1..MaxId}
StrIds == {<<"str", k>> : k \in 1..MaxId}

\* Python's str(x) on an id.
str(x) == <<"str", x[2]>>

----------------------------------------------------------------------------
(* defaultdict(list) *)

\* defaultdict(list)(): no key yet.
EmptyDict == [k \in {} |-> <<>>]

\* d[k].append(v): a missing key is created with the empty list first.
DictAppend(d, k, v) ==
    IF k \in DOMAIN d
    THEN [d EXCEPT ![k] = Append(@, v)]
    ELSE [x \in DOMAIN d \cup {k} |-> IF x = k THEN <<v>> ELSE d[x]]

\* The value read by d[k]: the stored list, or the default empty list.
DictGet(d, k) == IF k \in DOMAIN d THEN d[k] ELSE <<>>

\* The dictionary after d[k] has been read for every k in keys: __missing__
\* stores the default empty list under each key that was absent.
DictTouch(d, keys) ==
    [x \in DOMAIN d \cup keys |-> IF x \in DOMAIN d THEN d[x] ELSE <<>>]

----------------------------------------------------------------------------
(* GraphBuilder *)

MaxEdges == 3

\* self.citing after the loop of __init__ has run over E[1..i].
RECURSIVE GraphBuilder_citing(_, _)
GraphBuilder_citing(E, i) ==
    IF i = 0 THEN EmptyDict
    ELSE DictAppend(GraphBuilder_citing(E, i - 1), str(E[i][1]), str(E[i][2]))

\* self.cited after the loop of __init__ has run over E[1..i].
RECURSIVE GraphBuilder_cited(_, _)
GraphBuilder_cited(E, i) ==
    IF i = 0 THEN EmptyDict
    ELSE DictAppend(GraphBuilder_cited(E, i - 1), str(E[i][2]), str(E[i][1]))

\* follow_nodes that looks at the outgoing lists only.
follow_nodes_outgoing(cg, cd, nodes) ==
    UNION {Range(DictGet(cg, n)) : n \in nodes}

\* follow_nodes(nodes): the value returned, on the index (cg, cd).
follow_nodes(cg, cd, nodes) ==
    UNION {Range(DictGet(cg, n)) \cup Range(DictGet(cd, n)) : n \in nodes}

\* subgraph without the (cited in nodes) / (citing in nodes) tests.
subgraph_any_endpoint(cg, cd, nodes) ==
    {p \in UNION {{<<n, c>> : c \in Range(DictGet(cg, n))} : n \in nodes} :
        p[1] # p[2]}
    \cup
    {p \in UNION {{<<c, n>> : c \in Range(DictGet(cd, n))} : n \in nodes} :
        p[2] # p[1]}

\* subgraph without the (n != cited) / (n != citing) tests.
subgraph_with_loops(cg, cd, nodes) ==
    {p \in UNION {{<<n, c>> : c \in Range(DictGet(cg, n))} : n \in nodes} :
        p[2] \in nodes}
    \cup
    {p \in UNION {{<<c, n>> : c \in Range(DictGet(cd, n))} : n \in nodes} :
        p[1] \in nodes}

\* subgraph(nodes): the value returned, on the index (cg, cd).
subgraph(cg, cd, nodes) ==
    {p \in UNION {{<<n, c>> : c \in Range(DictGet(cg, n))} : n \in nodes} :
        p[1] # p[2] /\ p[2] \in nodes}
    \cup
    {p \in UNION {{<<c, n>> : c \in Range(DictGet(cd, n))} : n \in nodes} :
        p[2] # p[1] /\ p[1] \in nodes}

NoCall == [op |-> "none", arg |-> {}, ret |-> {}]

\* The edge relations: every id of a relation has the same Python type, as
\* the two columns of one table have.
EdgeRelations ==
    SeqsUpTo(IntIds \X IntIds, MaxEdges) \cup SeqsUpTo(StrIds \X StrIds, MaxEdges)

\* The node sets a caller may pass: ids of one Python type.
NodeSets == (SUBSET IntIds) \cup (SUBSET StrIds)

\* GraphBuilder(E)
InitGraph ==
    /\ edges \in EdgeRelations
    /\ citing = GraphBuilder_citing(edges, Len(edges))
    /\ cited = GraphBuilder_cited(edges, Len(edges))
    /\ call = NoCall

\* follow_nodes(nodes); reading self.citing[n] and self.cited[n] stores the
\* default list under every n that was no key.
FollowNodes(nodes) ==
    /\ call.op = "none"
    /\ call' = [op |-> "follow_nodes", arg |-> nodes,
                ret |-> follow_nodes(citing, cited, nodes)]
    /\ citing' = DictTouch(citing, nodes)
    /\ cited' = DictTouch(cited, nodes)
    /\ UNCHANGED edges

\* subgraph(nodes)
Subgraph(nodes) ==
    /\ call.op = "none"
    /\ call' = [op |-> "subgraph", arg |-> nodes,
                ret |-> subgraph(citing, cited, nodes)]
    /\ citing' = DictTouch(citing, nodes)
    /\ cited' = DictTouch(cited, nodes)
    /\ UNCHANGED edges

NextGraph ==
    \/ \E nodes \in NodeSets : FollowNodes(nodes)
    \/ \E nodes \in NodeSets : Subgraph(nodes)

\* No index is in use.
IdleGraph ==
    /\ edges = <<>>
    /\ citing = EmptyDict
    /\ cited = EmptyDict
    /\ call = NoCall

----------------------------------------------------------------------------
(* Claims on GraphBuilder *)

\* The edges of E, in canonical string form, between nodes of N, self-loops
\* left out.
InducedEdges(E, N) ==
    {<<str(E[i][1]), str(E[i][2])>> :
        i \in {j \in 1..Len(E) : /\ str(E[j][1]) \in N
                                 /\ str(E[j][2]) \in N
                                 /\ E[j][1] # E[j][2]}}

\* The edges of E as given, between nodes of N, self-loops left out.
InducedEdgesAsGiven(E, N) ==
    {<<E[i][1], E[i][2]>> :
        i \in {j \in 1..Len(E) : /\ E[j][1] \in N
                                 /\ E[j][2] \in N
                                 /\ E[j][1] # E[j][2]}}

\* Every id that occurs as a source or a target in E.
AllIds(E) == {E[i][1] : i \in 1..Len(E)} \cup {E[i][2] : i \in 1..Len(E)}

\* C1 (amended): for every edge relation E and every set N of ids in
\* canonical string form, subgraph(N) is exactly the set of pairs
\* (str(u), str(v)) with (u, v) in E, str(u) in N, str(v) in N and u != v.
C1_SubgraphIsInducedEdgeSet ==
    (call.op = "subgraph" /\ call.arg \subseteq StrIds)
        => call.ret = InducedEdges(edges, call.arg)

\* C1 witness: subgraph has been called with string ids on a relation of
\* numeric ids and returned some edges but not all of the listed ones.
C1_Witness ==
    /\ call.op = "subgraph"
    /\ call.arg \subseteq StrIds
    /\ edges # <<>>
    /\ Range(edges) \subseteq IntIds \X IntIds
    /\ call.ret # {}
    /\ Cardinality(call.ret) < Len(edges)

\* C1 (as stated): for every edge relation E and every node set N,
\* subgraph(N) is exactly { (u, v) : (u, v) in E, u in N, v in N, u != v }.
C1_SubgraphAsStated ==
    call.op = "subgraph" => call.ret = InducedEdgesAsGiven(edges, call.arg)

\* C2 (amended): when N is the set of the canonical string forms of every id
\* of E, subgraph(N) is the set of distinct pairs (str(from), str(to)) of E
\* whose two ends differ.
C2_FullNodeSetGivesRelationWithoutLoops ==
    (call.op = "subgraph" /\ call.arg = {str(x) : x \in AllIds(edges)})
        => call.ret = {<<str(E[1]), str(E[2])>> :
                          E \in {e \in Range(edges) : e[1] # e[2]}}

\* C2 witness: subgraph has been called with every id of a relation that
\* lists a self-loop, a repeated edge and numeric ids.
C2_Witness ==
    /\ call.op = "subgraph"
    /\ call.arg = {str(x) : x \in AllIds(edges)}
    /\ \E e \in Range(edges) : e[1] = e[2]
    /\ Cardinality(Range(edges)) < Len(edges)
    /\ Range(edges) \subseteq IntIds \X IntIds
    /\ call.ret # {}

\* C2 (as stated): when N is the full node set of E, subgraph(N) equals the
\* set of distinct (from, to) pairs of E.
C2_FullNodeSetAsStated ==
    (call.op = "subgraph" /\ call.arg = AllIds(edges))
        => call.ret = Range(edges)

\* The neighbours of the string ids of S in E, in canonical string form.
Neighbours(E, S) ==
    UNION {{str(E[i][2]) : i \in {j \in 1..Len(E) : str(E[j][1]) = n}}
           \cup {str(E[i][1]) : i \in {j \in 1..Len(E) : str(E[j][2]) = n}}
           : n \in S}

\* The neighbours of the ids of S in E, ids compared as given.
NeighboursAsGiven(E, S) ==
    UNION {{E[i][2] : i \in {j \in 1..Len(E) : E[j][1] = n}}
           \cup {E[i][1] : i \in {j \in 1..Len(E) : E[j][2] = n}}
           : n \in S}

\* C3 (amended): for every edge relation E and every set S of ids in
\* canonical string form, follow_nodes(S) is the union over n in S of the
\* (string forms of the) targets of the edges leaving n and the sources of
\* the edges entering n; so follow_nodes({}) = {} and follow_nodes of a
\* union is the union of the follow_nodes.
C3_FollowNodesIsNeighbourUnion ==
    (call.op = "follow_nodes" /\ call.arg \subseteq StrIds)
        => /\ call.ret = Neighbours(edges, call.arg)
           /\ (call.arg = {} => call.ret = {})
           /\ \A A \in SUBSET call.arg :
                call.ret = follow_nodes(citing, cited, A)
                           \cup follow_nodes(citing, cited, call.arg \ A)

\* C3 witness: follow_nodes has been called with string ids on a relation
\* of numeric ids and returned both a target and a source.
C3_Witness ==
    /\ call.op = "follow_nodes"
    /\ call.arg \subseteq StrIds
    /\ Range(edges) \subseteq IntIds \X IntIds
    /\ \E n \in call.arg :
          \E e1, e2 \in Range(edges) :
             /\ str(e1[1]) = n /\ str(e1[2]) # n
             /\ str(e2[2]) = n /\ str(e2[1]) # n
    /\ Cardinality(call.ret) >= 2

\* C3 (as stated): follow_nodes(S) is the union over n in S of the targets
\* of the edges leaving n and the sources of the edges entering n.
C3_FollowNodesAsStated ==
    call.op = "follow_nodes" => call.ret = NeighboursAsGiven(edges, call.arg)

----------------------------------------------------------------------------
(* normalize_edges.  A weight is a non-negative rational <<num, den>>.     *)

MaxNormLen == 3
MaxWeight == 2

NormNodes == {"a", "b"}

\* max(w, wmax)
RatMax(w, wmax) == IF RatGeq(w, wmax) THEN w ELSE wmax

\* wmax after the first loop has run over E[1..i], keeping the last weight
\* seen instead of the largest.
normalize_wmax_last(E, i) ==
    IF i = 0 THEN <<0, 1>> ELSE E[i][3]

\* wmax after the first loop has run over E[1..i]: wmax = max(w, wmax),
\* starting from 0.0.
RECURSIVE normalize_wmax(_, _)
normalize_wmax(E, i) ==
    IF i = 0 THEN <<0, 1>> ELSE RatMax(E[i][3], normalize_wmax(E, i - 1))

\* normalize_edges(E): the list returned, or the exception raised by the
\* first w / float(wmax) when wmax is 0.
normalize_edges(E) ==
    LET wmax == normalize_wmax(E, Len(E)) IN
    IF E = <<>> THEN [status |-> "ok", out |-> <<>>]
    ELSE IF wmax[1] = 0 THEN [status |-> "ZeroDivisionError", out |-> <<>>]
    ELSE [status |-> "ok",
          out |-> [i \in 1..Len(E) |->
                     <<E[i][1], E[i][2], RatDivide(E[i][3], wmax)>>]]

NoResult == [status |-> "none", out |-> <<>>]

\* The weighted edges (u, v, w) with w a whole number 0.0, 1.0, ...
WeightedEdges == NormNodes \X NormNodes \X {<<w, 1>> : w \in 0..MaxWeight}

InitNorm ==
    /\ nedges \in SeqsUpTo(WeightedEdges, MaxNormLen)
    /\ nres = NoResult

\* normalize_edges(nedges)
Normalize ==
    /\ nres.status = "none"
    /\ nres' = normalize_edges(nedges)
    /\ UNCHANGED nedges

NextNorm == Normalize

IdleNorm ==
    /\ nedges = <<>>
    /\ nres = NoResult

----------------------------------------------------------------------------
(* Claims on normalize_edges *)

\* The largest weight of a non-empty edge sequence.
MaxWeightOf(E) ==
    CHOOSE m \in {E[i][3] : i \in 1..Len(E)} :
        \A j \in 1..Len(E) : RatGeq(m, E[j][3])

\* C4: for an edge sequence with non-negative weights and at least one
\* positive weight, normalize_edges returns the same endpoints in the same
\* order, each weight divided by the maximum weight; the maximum output
\* weight is exactly 1 and every output weight lies in [0, 1].  An empty
\* input gives an empty sequence and raises nothing.
C4_NormalizeDividesByMax ==
    nres.status # "none" =>
        /\ (nedges = <<>> => nres = [status |-> "ok", out |-> <<>>])
        /\ (\E i \in 1..Len(nedges) : nedges[i][3][1] > 0) =>
              /\ nres.status = "ok"
              /\ Len(nres.out) = Len(nedges)
              /\ \A i \in 1..Len(nedges) :
                    /\ nres.out[i][1] = nedges[i][1]
                    /\ nres.out[i][2] = nedges[i][2]
                    /\ nres.out[i][3][2] > 0
                    /\ RatEq(nres.out[i][3],
                             <<nedges[i][3][1] * MaxWeightOf(nedges)[2],
                               nedges[i][3][2] * MaxWeightOf(nedges)[1]>>)
                    /\ RatGeq(nres.out[i][3], <<0, 1>>)
                    /\ RatGeq(<<1, 1>>, nres.out[i][3])
              /\ \E i \in 1..Len(nedges) : nres.out[i][3] = <<1, 1>>

\* C4 witness: a sequence with different positive weights, the largest not
\* last, has been normalised.
C4_Witness ==
    /\ nres.status = "ok"
    /\ Len(nedges) >= 2
    /\ nedges[1][3] = <<2, 1>>
    /\ nedges[Len(nedges)][3] = <<1, 1>>
    /\ nres.out[Len(nedges)][3] = <<1, 2>>

\* C5 (as stated): for a non-empty edge sequence whose weights are all 0,
\* normalize_edges does not divide by zero and does not raise.
C5_ZeroMaximumIsGuarded ==
    (nres.status # "none" /\ nedges # <<>>
        /\ \A i \in 1..Len(nedges) : nedges[i][3][1] = 0)
        => nres.status = "ok"

----------------------------------------------------------------------------
(* Association miners.  Items (n-grams, topic ids) are ordered values; the *)
(* numbers 1, 2, 3 stand for the items a < b < c.  A statistic (lift,      *)
(* interest) and a threshold is a rational <<num, den>> with den > 0.      *)

MaxTrans == 3

Items == {1, 2, 3}

\* A pair key that keeps the order in which the two items came.
sorted_tuple_as_given(a, b) == <<a, b>>

\* sorted_tuple(a, b)
sorted_tuple(a, b) == IF a < b THEN <<a, b>> ELSE <<b, a>>

\* The number of places of the list trans that hold item i.
Occurrences(trans, i) == Cardinality({j \in 1..Len(trans) : trans[j] = i})

\* The number of 2-combinations of the list trans (itertools.combinations:
\* positions j < k) that sorted_tuple maps to key.
PairOccurrences(trans, key) ==
    Cardinality({p \in (1..Len(trans)) \X (1..Len(trans)) :
                    p[1] < p[2] /\ sorted_tuple(trans[p[1]], trans[p[2]]) = key})

\* freqs1 after the loop has run over T[1..k] (a missing key reads 0).
RECURSIVE Freqs1(_, _)
Freqs1(T, k) ==
    IF k = 0 THEN [i \in Items |-> 0]
    ELSE LET prev == Freqs1(T, k - 1)
         IN  [i \in Items |-> prev[i] + Occurrences(T[k], i)]

\* freqs2 after the loop has run over T[1..k] (a missing key reads 0; the
\* keys of the dictionary are the pairs with a count above 0).
RECURSIVE Freqs2(_, _)
Freqs2(T, k) ==
    IF k = 0 THEN [key \in Items \X Items |-> 0]
    ELSE LET prev == Freqs2(T, k - 1)
         IN  [key \in Items \X Items |->
                prev[key] + (IF Len(T[k]) >= 2 THEN PairOccurrences(T[k], key) ELSE 0)]

\* The keys of a dictionary in its iteration order: one fixed order.
RECURSIVE DictKeys(_)
DictKeys(S) ==
    IF S = {} THEN <<>>
    ELSE LET x == CHOOSE y \in S : TRUE IN <<x>> \o DictKeys(S \ {x})

\* The test of get_rules_by_lift with > in place of >=.
lift_passes_strict(lift, min_lift) == ~RatGeq(min_lift, lift)

\* lift >= min_lift
lift_passes(lift, min_lift) == RatGeq(lift, min_lift)

\* The second loop of get_rules_by_lift over keys[1..k]: the rules list.
RECURSIVE LiftRules(_, _, _, _, _, _)
LiftRules(keys, k, f1, f2, n, min_lift) ==
    IF k = 0 THEN <<>>
    ELSE LET i1 == keys[k][1]
             i2 == keys[k][2]
             f == f2[keys[k]]
             lift == <<f * n, f1[i1] * f1[i2]>>
             rest == LiftRules(keys, k - 1, f1, f2, n, min_lift)
         IN  IF f >= 1 /\ lift_passes(lift, min_lift)
             THEN Append(rest, <<i1, i2, lift>>)
             ELSE rest

\* get_rules_by_lift(T, min_lift)
get_rules_by_lift(T, min_lift) ==
    LET f1 == Freqs1(T, Len(T))
        f2 == Freqs2(T, Len(T))
        keys == DictKeys({key \in Items \X Items : f2[key] > 0})
    IN  [op |-> "get_rules_by_lift", thr |-> min_lift, freqs1 |-> f1, freqs2 |-> f2,
         rules |-> LiftRules(keys, Len(keys), f1, f2, Len(T), min_lift)]

\* sorted(freqs2.items(), reverse=True, key=v) on the keys: largest count
\* first, keys of equal count in their dictionary order (the sort is stable).
RECURSIVE SortedByCount(_, _)
SortedByCount(keys, f2) ==
    IF keys = <<>> THEN <<>>
    ELSE LET i == CHOOSE j \in 1..Len(keys) :
                    /\ \A m \in 1..Len(keys) : f2[keys[m]] <= f2[keys[j]]
                    /\ \A m \in 1..(j - 1) : f2[keys[m]] < f2[keys[j]]
         IN  <<keys[i]>> \o
             SortedByCount(SubSeq(keys, 1, i - 1) \o SubSeq(keys, i + 1, Len(keys)), f2)

\* int21 computed with the operands of int12.
interest21_as_12(v, f1t1, f1t2, total) == <<v * total - f1t2 * f1t1, f1t1 * total>>

\* int12 = float(v) / freqs1[t1] - freqs1[t2] / total
interest12(v, f1t1, f1t2, total) == <<v * total - f1t2 * f1t1, f1t1 * total>>

\* int21 = float(v) / freqs1[t2] - freqs1[t1] / total
interest21(v, f1t1, f1t2, total) == <<v * total - f1t1 * f1t2, f1t2 * total>>

\* The second loop of get_frequent_topic_pairs over keys[1..k].
RECURSIVE TopicRules(_, _, _, _, _, _)
TopicRules(keys, k, f1, f2, total, min_interest) ==
    IF k = 0 THEN <<>>
    ELSE LET t1 == keys[k][1]
             t2 == keys[k][2]
             v == f2[keys[k]]
             int12 == interest12(v, f1[t1], f1[t2], total)
             int21 == interest21(v, f1[t1], f1[t2], total)
             rest == TopicRules(keys, k - 1, f1, f2, total, min_interest)
             with12 == IF RatGeq(int12, min_interest)
                       THEN Append(rest, <<t1, t2, int12>>) ELSE rest
         IN  IF RatGeq(int21, min_interest)
             THEN Append(with12, <<t2, t1, int21>>) ELSE with12

\* get_frequent_topic_pairs(T, min_interest)
get_frequent_topic_pairs(T, min_interest) ==
    LET f1 == Freqs1(T, Len(T))
        f2 == Freqs2(T, Len(T))
        keys == SortedByCount(DictKeys({key \in Items \X Items : f2[key] > 0}), f2)
    IN  [op |-> "get_frequent_topic_pairs", thr |-> min_interest,
         freqs1 |-> f1, freqs2 |-> f2,
         rules |-> TopicRules(keys, Len(keys), f1, f2, Len(T), min_interest)]

NoRules == [op |-> "none", thr |-> <<0, 1>>, freqs1 |-> <<>>, freqs2 |-> <<>>,
            rules |-> <<>>]

\* The item sets of a document, each given as a list without repetition, in
\* ascending or in descending item order.
ItemSetLists ==
    {t \in SeqsUpTo(Items, Cardinality(Items)) :
        \/ \A j \in 1..(Len(t) - 1) : t[j] < t[j + 1]
        \/ \A j \in 1..(Len(t) - 1) : t[j] > t[j + 1]}

\* The transactions [{a,b}, {a,b}, {a}, {b}, {c}].
Fixture == << <<1, 2>>, <<2, 1>>, <<1>>, <<2>>, <<3>> >>

MinLifts == {<<1, 1>>, <<6, 5>>, <<2, 1>>}

MinInterests == {<<0, 1>>, <<1, 3>>, <<-1, 2>>}

InitRules ==
    /\ transactions \in SeqsUpTo(ItemSetLists, MaxTrans) \cup {Fixture}
    /\ rres = NoRules

\* get_rules_by_lift(transactions, min_lift)
RulesByLift(min_lift) ==
    /\ rres.op = "none"
    /\ rres' = get_rules_by_lift(transactions, min_lift)
    /\ UNCHANGED transactions

\* get_frequent_topic_pairs(transactions, min_interest)
FrequentTopicPairs(min_interest) ==
    /\ rres.op = "none"
    /\ rres' = get_frequent_topic_pairs(transactions, min_interest)
    /\ UNCHANGED transactions

NextRules ==
    \/ \E m \in MinLifts : RulesByLift(m)
    \/ \E m \in MinInterests : FrequentTopicPairs(m)

IdleRules ==
    /\ transactions = <<>>
    /\ rres = NoRules

----------------------------------------------------------------------------
(* Claims on the association miners *)

\* The number of transactions of T that contain item i.
Support1(T, i) == Cardinality({k \in 1..Len(T) : i \in Range(T[k])})

\* The number of transactions of T that contain both i and j.
Support2(T, i, j) ==
    Cardinality({k \in 1..Len(T) : i \in Range(T[k]) /\ j \in Range(T[k])})

\* freq2 * N / (freq1[i] * freq1[j])
Lift(T, i, j) == <<Support2(T, i, j) * Len(T), Support1(T, i) * Support1(T, j)>>

\* freq2 / freq1[i] - freq1[j] / N
Interest(T, i, j) ==
    <<Support2(T, i, j) * Len(T) - Support1(T, j) * Support1(T, i),
      Support1(T, i) * Len(T)>>

\* The places of the rules list that hold a rule on the unordered pair {i, j}.
RulesOn(rules, i, j) ==
    {k \in 1..Len(rules) : {rules[k][1], rules[k][2]} = {i, j}}

\* The places of the rules list that hold a rule from i to j.
RulesFromTo(rules, i, j) ==
    {k \in 1..Len(rules) : rules[k][1] = i /\ rules[k][2] = j}

C8_TopicRulesPerDirection ==
    rres.op = "get_frequent_topic_pairs" =>
        /\ \A t1, t2 \in Items :
              t1 # t2 =>
                 IF Support2(transactions, t1, t2) >= 1
                    /\ RatGeq(Interest(transactions, t1, t2), rres.thr)
                 THEN /\ Cardinality(RulesFromTo(rres.rules, t1, t2)) = 1
                      /\ \A k \in RulesFromTo(rres.rules, t1, t2) :
                            RatEq(rres.rules[k][3], Interest(transactions, t1, t2))
                 ELSE RulesFromTo(rres.rules, t1, t2) = {}
        /\ \A k \in 1..Len(rres.rules) : rres.rules[k][1] # rres.rules[k][2]

\* C8 witness: get_frequent_topic_pairs has emitted a pair in one direction
\* only, and another pair in both directions.
C8_Witness ==
    /\ rres.op = "get_frequent_topic_pairs"
    /\ \E t1, t2 \in Items :
          /\ t1 < t2
          /\ RulesFromTo(rres.rules, t1, t2) = {}
          /\ RulesFromTo(rres.rules, t2, t1) # {}
    /\ \E t1, t2 \in Items :
          /\ t1 < t2
          /\ RulesFromTo(rres.rules, t1, t2) # {}
          /\ RulesFromTo(rres.rules, t2, t1) # {}

----------------------------------------------------------------------------
(* The n-gram layer builder *)

MaxRows == 2

\* The n-grams of the stored rows.
LayerItems == {1, 2}

\* ngrams_per_doc after the loop has run over R[1..i].
RECURSIVE NgramsPerDoc(_, _)
NgramsPerDoc(R, i) ==
    IF i = 0 THEN EmptyDict
    ELSE DictAppend(NgramsPerDoc(R, i - 1), str(R[i][1]), R[i][2])

\* ngrams_per_doc.values(): the lists, in the iteration order of the keys.
DictValues(d) ==
    LET keys == DictKeys(DOMAIN d) IN [k \in 1..Len(keys) |-> d[keys[k]]]

\* get_ngrams_layer_from_db(doc_ids, min_ngram_lift), on the rows R that the
\* store returns for doc_ids: the values computed on the way and the tuple
\* returned, or the exception raised.
get_ngrams_layer_from_db(R, min_ngram_lift) ==
    LET word_nodes == {R[i][2] : i \in 1..Len(R)}
        paper_word_edges == [i \in 1..Len(R) |-> <<str(R[i][1]), R[i][2], R[i][3]>>]
        values == DictValues(NgramsPerDoc(R, Len(R)))
        mined == get_rules_by_lift(values, min_ngram_lift)
        ww == normalize_edges(mined.rules)
        pw == normalize_edges(paper_word_edges)
        partial == [status |-> "ok", trans |-> values,
                    freqs1 |-> mined.freqs1, freqs2 |-> mined.freqs2,
                    word_nodes |-> word_nodes, ngram_density |-> <<0, 1>>,
                    word_word_edges |-> <<>>, paper_word_edges |-> <<>>]
    IN  IF word_nodes = {}
        THEN [partial EXCEPT !.status = "ZeroDivisionError"]
        ELSE IF ww.status # "ok" THEN [partial EXCEPT !.status = ww.status]
        ELSE IF pw.status # "ok" THEN [partial EXCEPT !.status = pw.status]
        ELSE [partial EXCEPT
                 !.ngram_density = <<Len(mined.rules), Cardinality(word_nodes)>>,
                 !.word_word_edges = ww.out,
                 !.paper_word_edges = pw.out]

NoLayer == [status |-> "none", trans |-> <<>>, freqs1 |-> <<>>, freqs2 |-> <<>>,
            word_nodes |-> {}, ngram_density |-> <<0, 1>>,
            word_word_edges |-> <<>>, paper_word_edges |-> <<>>]

\* The rows of doc_ngrams: the paper ids of one table have one Python type;
\* the stored values are positive.
LayerRows ==
    SeqsUpTo(IntIds \X LayerItems \X {<<w, 1>> : w \in 1..MaxWeight}, MaxRows)
    \cup SeqsUpTo(StrIds \X LayerItems \X {<<w, 1>> : w \in 1..MaxWeight}, MaxRows)

InitLayer ==
    /\ rows \in LayerRows
    /\ lres = NoLayer

\* get_ngrams_layer_from_db(doc_ids, min_ngram_lift)
BuildNgramsLayer(min_ngram_lift) ==
    /\ lres.status = "none"
    /\ lres' = get_ngrams_layer_from_db(rows, min_ngram_lift)
    /\ UNCHANGED rows

NextLayer == \E m \in MinLifts : BuildNgramsLayer(m)

IdleLayer ==
    /\ rows = <<>>
    /\ lres = NoLayer

----------------------------------------------------------------------------
(* Claims on the layer builder *)

\* C7 (as stated): for every transaction collection that the layer builder
\* hands to get_rules_by_lift, freq1[i] is the number of transactions that
\* contain item i and freq2[{i1, i2}] is the number of transactions that
\* contain both i1 and i2, counted under the one key (i1, i2) with i1 < i2.
C7_FrequenciesCountTransactions ==
    lres.status # "none" =>
        /\ \A i \in Items : lres.freqs1[i] = Support1(lres.trans, i)
        /\ \A i, j \in Items :
              i < j => /\ lres.freqs2[<<i, j>>] = Support2(lres.trans, i, j)
                       /\ lres.freqs2[<<j, i>>] = 0

----------------------------------------------------------------------------
(* ModelBuilder.assemble_layers.  The node lists hold distinct entities,   *)
(* as build passes them (each is made from a set).  A publication is named *)
(* by an id, which the first loop turns into a string; the k-th author,    *)
(* n-gram or venue is named k.  An edge list holds edges between entities  *)
(* of its layers and may list a pair more than once.  The lists are read   *)
(* one element per step.                                                   *)

MaxNodes == 4
MaxEdgesIn == 2

\* The publication ids of the inputs: an id given as a number, the same id
\* given as a string, and a second id given as a string.
PubIds == {<<"int", 1>>, <<"str", 1>>, <<"str", 2>>}

\* The weights of the edges after normalisation: 0.5 and 1.0.
EdgeWeights == {<<1, 2>>, <<1, 1>>}

\* The year column of the row that the papers table holds for an id: <<>>
\* is NULL.  The row of "1" has no year, every other row has 2014.
YearColumn(id) == IF id[2] = 1 THEN <<>> ELSE <<2014>>

\* int(year or 0)
int_year_or_0(year) == IF year = <<>> THEN 0 ELSE year[1]

\* self.pub_years[pub] and self.query_scores[pub]: the value stored, or no
\* such key.  __init__ stores int(year or 0) under str(id) for every row of
\* the papers table; a publication without a row has no key.
YearLookups(pub) ==
    {[found |-> FALSE, value |-> 0],
     [found |-> TRUE, value |-> int_year_or_0(YearColumn(pub))]}
ScoreLookups == {[found |-> FALSE, value |-> <<0, 1>>],
                 [found |-> TRUE, value |-> <<1, 2>>]}

\* The loops of assemble_layers, in program order.
Phases == <<"pubs", "citation_edges", "authors", "coauth_edges", "auth_edges",
            "ngrams", "ngram_ngram_edges", "paper_ngram_edges",
            "venues", "pub_venue_edges", "attributes">>

PhaseIndex(ph) == CHOOSE i \in 1..Len(Phases) : Phases[i] = ph

\* The id given to a new node when ids are counted from 1.
new_node_id_from_one(id) == id + 1

\* The id given to a new node: the current value of next_id.
new_node_id(id) == id

\* graph.add_node(id, **atts)
add_node(nodes, id, atts) ==
    [n \in DOMAIN nodes \cup {id} |-> IF n = id THEN atts ELSE nodes[n]]

\* graph.add_edge(u, v, weight=w): a DiGraph keeps one edge per (u, v).
add_edge(g, u, v, w) ==
    [e \in DOMAIN g \cup {<<u, v>>} |-> IF e = <<u, v>> THEN w ELSE g[e]]

\* An undirected edge inserted in one direction only.
add_undirected_one_way(g, u, v, w) == add_edge(g, u, v, w)

\* The two add_edge calls of an undirected layer.
add_undirected(g, u, v, w) == add_edge(add_edge(g, u, v, w), v, u, w)

\* A citation edge inserted like the edges of the undirected layers.
add_citation_both_ways(g, u, v, w) == add_edge(add_edge(g, u, v, w), v, u, w)

\* The add_edge call of the citation layer.
add_citation(g, u, v, w) == add_edge(g, u, v, w)

EmptyMap == [k \in {} |-> 0]

MapPut(m, k, v) == [x \in DOMAIN m \cup {k} |-> IF x = k THEN v ELSE m[x]]

EdgesRead == Cardinality(citation_edges) + Cardinality(layer_edges)

\* The ids that name a publication read by the first loop, in either form.
PubNames == {p \in PubIds : str(p) \in DOMAIN pubs_ids}

InitAssemble ==
    /\ include_attributes \in BOOLEAN
    /\ pc = "pubs"
    /\ pubs = <<>>
    /\ next_id = 0
    /\ graph_nodes = EmptyMap
    /\ graph_edges = EmptyMap
    /\ pubs_ids = EmptyMap
    /\ authors_ids = EmptyMap
    /\ words_ids = EmptyMap
    /\ venues_ids = EmptyMap
    /\ citation_edges = {}
    /\ layer_edges = {}

\* for pub in pubs: one iteration.  pub = str(pub); the node carries
\* self.pub_years[pub] and self.query_scores[pub], and a missing key raises
\* KeyError.
AddPub(pub, year, score) ==
    /\ pc = "pubs"
    /\ next_id < MaxNodes
    /\ pub \notin Range(pubs)
    /\ IF ~year.found \/ ~score.found
       THEN /\ pc' = "raised"
            /\ UNCHANGED <<pubs, next_id, graph_nodes, pubs_ids>>
       ELSE /\ graph_nodes' = add_node(graph_nodes, new_node_id(next_id),
                                 [type |-> "paper",
                                  entity_id |-> str(pub),
                                  year |-> year.value,
                                  query_score |-> score.value])
            /\ pubs_ids' = MapPut(pubs_ids, str(pub), new_node_id(next_id))
            /\ pubs' = Append(pubs, pub)
            /\ next_id' = next_id + 1
            /\ pc' = pc
    /\ UNCHANGED <<include_attributes, graph_edges, authors_ids, words_ids,
                   venues_ids, citation_edges, layer_edges>>

\* for paper1, paper2, weight in citation_edges: one iteration.
\* pubs_ids[paper] raises KeyError on an id that is no key.
AddCitationEdge(p1, p2, w) ==
    /\ pc = "citation_edges"
    /\ EdgesRead < MaxEdgesIn
    /\ IF p1 \in DOMAIN pubs_ids /\ p2 \in DOMAIN pubs_ids
       THEN /\ graph_edges' = add_citation(graph_edges, pubs_ids[p1], pubs_ids[p2], w)
            /\ citation_edges' = citation_edges \cup {<<p1, p2, w>>}
            /\ pc' = pc
       ELSE /\ pc' = "raised"
            /\ UNCHANGED <<graph_edges, citation_edges>>
    /\ UNCHANGED <<include_attributes, pubs, next_id, graph_nodes, pubs_ids,
                   authors_ids, words_ids, venues_ids, layer_edges>>

\* One iteration of a node loop other than the first: for author in
\* authors, for ngram in ngrams, for venue in venues.
AddNode(phase, type, ids) ==
    /\ pc = phase
    /\ next_id < MaxNodes
    /\ graph_nodes' = add_node(graph_nodes, new_node_id(next_id),
                               [type |-> type, entity_id |-> Cardinality(DOMAIN ids) + 1])
    /\ next_id' = next_id + 1
    /\ UNCHANGED <<include_attributes, pc, pubs, graph_edges, citation_edges,
                   layer_edges>>

AddAuthor ==
    /\ AddNode("authors", "author", authors_ids)
    /\ authors_ids' = MapPut(authors_ids, Cardinality(DOMAIN authors_ids) + 1,
                             new_node_id(next_id))
    /\ UNCHANGED <<pubs_ids, words_ids, venues_ids>>

AddNgram ==
    /\ AddNode("ngrams", "ngram", words_ids)
    /\ words_ids' = MapPut(words_ids, Cardinality(DOMAIN words_ids) + 1,
                           new_node_id(next_id))
    /\ UNCHANGED <<pubs_ids, authors_ids, venues_ids>>

AddVenue ==
    /\ AddNode("venues", "venue", venues_ids)
    /\ venues_ids' = MapPut(venues_ids, Cardinality(DOMAIN venues_ids) + 1,
                            new_node_id(next_id))
    /\ UNCHANGED <<pubs_ids, authors_ids, words_ids>>

\* One iteration of an edge loop of an undirected layer, on the edge
\* (x, y, w) whose ends have the node ids xs[x] and ys[y]; a lookup of an
\* id that is no key raises KeyError.
AddLayerEdge(phase, xs, x, ys, y, w) ==
    /\ pc = phase
    /\ EdgesRead < MaxEdgesIn
    /\ IF x \in DOMAIN xs /\ y \in DOMAIN ys
       THEN /\ graph_edges' = add_undirected(graph_edges, xs[x], ys[y], w)
            /\ layer_edges' = layer_edges \cup {<<phase, x, y, w>>}
            /\ pc' = pc
       ELSE /\ pc' = "raised"
            /\ UNCHANGED <<graph_edges, layer_edges>>
    /\ UNCHANGED <<include_attributes, pubs, next_id, graph_nodes, pubs_ids,
                   authors_ids, words_ids, venues_ids, citation_edges>>

\* for author1, author2, weight in coauth_edges: the edges come from
\* get_cached_coauthorship_edges, with the smaller author id first and the
\* weight 1.0.
AddCoauthEdge(a1, a2) ==
    a1 <= a2 /\ AddLayerEdge("coauth_edges", authors_ids, a1, authors_ids, a2, <<1, 1>>)

\* for paper, author, weight in auth_edges (the weight is 1.0)
AddAuthEdge(p, a) ==
    AddLayerEdge("auth_edges", pubs_ids, p, authors_ids, a, <<1, 1>>)

\* for w1, w2, weight in ngram_ngram_edges: the edges are the rules of
\* get_rules_by_lift, whose pairs are sorted tuples.
AddNgramEdge(w1, w2, w) ==
    w1 <= w2 /\ AddLayerEdge("ngram_ngram_edges", words_ids, w1, words_ids, w2, w)

\* for paper, word, weight in paper_ngram_edges
AddPaperNgramEdge(p, k, w) ==
    AddLayerEdge("paper_ngram_edges", pubs_ids, p, words_ids, k, w)

\* for pub, venue, weight in pub_venue_edges (the weight is 1.0)
AddPubVenueEdge(p, v) ==
    AddLayerEdge("pub_venue_edges", pubs_ids, p, venues_ids, v, <<1, 1>>)

\* The list of the current loop is exhausted: the next loop starts.
EndLoop ==
    /\ pc \in Range(Phases) \ {"attributes"}
    /\ pc' = Phases[PhaseIndex(pc) + 1]
    /\ UNCHANGED <<include_attributes, pubs, next_id, graph_nodes, graph_edges, pubs_ids,
                   authors_ids, words_ids, venues_ids, citation_edges, layer_edges>>

\* if self.include_attributes: ...; return graph.  With the flag set the
\* attribute fetch raises: get_papers_atts reads self.query_sims, which is
\* never assigned (AttributeError), get_topics_atts iterates topics, which
\* build passes as None, and the last add_attributes iterates the module
\* words (TypeError).
Return ==
    /\ pc = "attributes"
    /\ pc' = IF include_attributes THEN "raised" ELSE "done"
    /\ UNCHANGED <<include_attributes, pubs, next_id, graph_nodes, graph_edges, pubs_ids,
                   authors_ids, words_ids, venues_ids, citation_edges, layer_edges>>

NextAssemble ==
    \/ \E pub \in PubIds :
          \E year \in YearLookups(str(pub)), score \in ScoreLookups :
             AddPub(pub, year, score)
    \/ \E p1, p2 \in PubNames, w \in EdgeWeights : AddCitationEdge(p1, p2, w)
    \/ AddAuthor
    \/ \E a1, a2 \in DOMAIN authors_ids : AddCoauthEdge(a1, a2)
    \/ \E p \in PubNames, a \in DOMAIN authors_ids : AddAuthEdge(p, a)
    \/ AddNgram
    \/ \E w1, w2 \in DOMAIN words_ids, w \in EdgeWeights : AddNgramEdge(w1, w2, w)
    \/ \E p \in PubNames, k \in DOMAIN words_ids, w \in EdgeWeights :
          AddPaperNgramEdge(p, k, w)
    \/ AddVenue
    \/ \E p \in PubNames, v \in DOMAIN venues_ids : AddPubVenueEdge(p, v)
    \/ EndLoop
    \/ Return

IdleAssemble ==
    /\ include_attributes = FALSE
    /\ pc = "idle"
    /\ pubs = <<>>
    /\ next_id = 0
    /\ graph_nodes = EmptyMap
    /\ graph_edges = EmptyMap
    /\ pubs_ids = EmptyMap
    /\ authors_ids = EmptyMap
    /\ words_ids = EmptyMap
    /\ venues_ids = EmptyMap
    /\ citation_edges = {}
    /\ layer_edges = {}

----------------------------------------------------------------------------
(* Claims on assemble_layers *)

\* The node ids from lo up to, not including, lo + n.
Band(lo, n) == lo..(lo + n - 1)

\* The nodes of the graph that have the given type.
NodesOfType(type) == {id \in DOMAIN graph_nodes : graph_nodes[id].type = type}

\* Map m gives its entities different node ids.
OneIdEach(m) == \A j, k \in DOMAIN m : j # k => m[j] # m[k]

\* C9: after assemble_layers the node ids are exactly 0 .. n-1 with
\* n = |pubs| + |authors| + |keywords| + |venues|, each id is used for one
\* node of one type, and the ids follow the layer order: the publications
\* have the first |pubs| ids, in the order of the list, then come the
\* authors, then the keywords, then the venues; each id map sends its
\* entities to different ids of its own layer.
C9_NodeIdsAreDenseAndInLayerOrder ==
    pc = "done" =>
        LET np == Len(pubs)
            na == Cardinality(DOMAIN authors_ids)
            nw == Cardinality(DOMAIN words_ids)
            nv == Cardinality(DOMAIN venues_ids)
        IN  /\ DOMAIN graph_nodes = 0..(np + na + nw + nv - 1)
            /\ next_id = np + na + nw + nv
            /\ NodesOfType("paper") = Band(0, np)
            /\ NodesOfType("author") = Band(np, na)
            /\ NodesOfType("ngram") = Band(np + na, nw)
            /\ NodesOfType("venue") = Band(np + na + nw, nv)
            /\ \A k \in 1..np : graph_nodes[k - 1].entity_id = str(pubs[k])
            /\ \A k \in DOMAIN pubs_ids :
                  pubs_ids[k] \in Band(0, np) /\ graph_nodes[pubs_ids[k]].entity_id = k
            /\ \A k \in DOMAIN authors_ids : authors_ids[k] \in Band(np, na)
            /\ \A k \in DOMAIN words_ids : words_ids[k] \in Band(np + na, nw)
            /\ \A k \in DOMAIN venues_ids : venues_ids[k] \in Band(np + na + nw, nv)
            /\ OneIdEach(pubs_ids) /\ OneIdEach(authors_ids)
            /\ OneIdEach(words_ids) /\ OneIdEach(venues_ids)

\* C9 witness: assemble_layers has returned a graph with nodes of all four
\* layers.
C9_Witness ==
    /\ pc = "done"
    /\ pubs # <<>>
    /\ DOMAIN authors_ids # {}
    /\ DOMAIN words_ids # {}
    /\ DOMAIN venues_ids # {}

\* The node ids of the two ends of an edge of an undirected layer.
EndIds(e) ==
    CASE e[1] = "coauth_edges" -> <<authors_ids[e[2]], authors_ids[e[3]]>>
      [] e[1] = "auth_edges" -> <<pubs_ids[e[2]], authors_ids[e[3]]>>
      [] e[1] = "ngram_ngram_edges" -> <<words_ids[e[2]], words_ids[e[3]]>>
      [] e[1] = "paper_ngram_edges" -> <<pubs_ids[e[2]], words_ids[e[3]]>>
      [] e[1] = "pub_venue_edges" -> <<pubs_ids[e[2]], venues_ids[e[3]]>>

HasEdge(u, v, w) == <<u, v>> \in DOMAIN graph_edges /\ graph_edges[<<u, v>>] = w

\* The weights the input of an undirected layer gives to the node pair of e.
LayerWeights(e) ==
    {d[4] : d \in {x \in layer_edges :
                     {EndIds(x)[1], EndIds(x)[2]} = {EndIds(e)[1], EndIds(e)[2]}}}

\* The weights the citation input gives to the pair (p1, p2).
CitationWeights(p1, p2) ==
    {c[3] : c \in {x \in citation_edges : x[1] = p1 /\ x[2] = p2}}

\* C10: in the graph returned, every edge of the co-authorship, authorship,
\* keyword co-occurrence, publication-keyword and publication-venue layers
\* is present in both directions with the same weight, a weight its layer
\* gives to that pair (the weight w of the edge when the layer lists the
\* pair with one weight), and every edge u -> v that is not between two
\* publications has v -> u with the same weight.  Each citation edge
\* (p1, p2, w) is present as p1 -> p2 with a weight the input gives to
\* (p1, p2), and an edge between two publications exists only if it is a
\* citation edge of the input, so the reverse p2 -> p1 exists only if it
\* is itself a citation edge.
C10_UndirectedLayersBothWaysCitationsOneWay ==
    pc = "done" =>
        /\ \A e \in layer_edges :
              \E w \in LayerWeights(e) :
                 /\ HasEdge(EndIds(e)[1], EndIds(e)[2], w)
                 /\ HasEdge(EndIds(e)[2], EndIds(e)[1], w)
        /\ \A e \in DOMAIN graph_edges :
              (graph_nodes[e[1]].type # "paper" \/ graph_nodes[e[2]].type # "paper")
              => HasEdge(e[2], e[1], graph_edges[e])
        /\ \A c \in citation_edges :
              \E w \in CitationWeights(c[1], c[2]) :
                 HasEdge(pubs_ids[c[1]], pubs_ids[c[2]], w)
        /\ \A e \in DOMAIN graph_edges :
              (graph_nodes[e[1]].type = "paper" /\ graph_nodes[e[2]].type = "paper")
              => \E c \in citation_edges :
                    e = <<pubs_ids[c[1]], pubs_ids[c[2]]>> /\ graph_edges[e] = c[3]

\* C10 witness: the graph returned has a citation edge whose reverse is
\* absent and an edge of an undirected layer.
C10_Witness ==
    /\ pc = "done"
    /\ \E c \in citation_edges :
          <<pubs_ids[c[2]], pubs_ids[c[1]]>> \notin DOMAIN graph_edges
    /\ \E e \in layer_edges : e[1] = "coauth_edges" /\ e[2] # e[3]

\* C11 (as stated): for both values of include_attributes, once the loops
\* over the layers have ended assemble_layers runs to completion and
\* returns the graph.
C11_BothFlagValuesRunToCompletion ==
    [][pc = "attributes" => pc' = "done"]_vars

\* C14 (as stated): a publication without a year in pub_years or without
\* a score in query_scores does not abort the build: the loop over the
\* publications never raises.
C14_MissingDataNeverAborts ==
    [][pc = "pubs" => pc' # "raised"]_vars

----------------------------------------------------------------------------
(* The authors layer: get_authors_layer, get_cached_coauthorship_edges and *)
(* get_coauthorship_edges.  The store holds the table authorships and the  *)
(* table coauthorships, which caches for each pair of co-authors the       *)
(* number of papers they share.                                            *)

MaxAuthors == 2
MaxPapers == 2

AuthorIds == 1..MaxAuthors
PaperIds == 1..MaxPapers

\* x in lowest terms.
RatNorm(x) == <<x[1] \div GCD(x[1], x[2]), x[2] \div GCD(x[1], x[2])>>

\* np.log(k) in thousandths, for k = 1, 2, ...
LnThousandths == <<0, 693, 1099, 1386, 1609, 1792>>

\* np.log(k)
np_log(k) == RatNorm(<<LnThousandths[k], 1000>>)

\* 1.0 + np.log(npapers)
log_weight(npapers) ==
    RatNorm(<<np_log(npapers)[2] + np_log(npapers)[1], np_log(npapers)[2]>>)

\* The number of papers that authors a and b share in table.
SharedPapers(table, a, b) ==
    Cardinality({p \in PaperIds : <<p, a>> \in table /\ <<p, b>> \in table})

\* get_authors(doc_id): the author_id column of the rows of the paper.
get_authors(doc_id) == {r[2] : r \in {x \in authorships : x[1] = doc_id}}

\* The edge of a pair kept in the order of its row.
coauth_edge_as_given(a1, a2, w) == <<a1, a2, w>>

\* edge = (a1, a2, w) if a1 < a2 else (a2, a1, w)
coauth_edge(a1, a2, w) == IF a1 < a2 THEN <<a1, a2, w>> ELSE <<a2, a1, w>>

\* The weight of the edge of a cached row: 1.0 + np.log(npapers) is
\* computed, and the edge is made with 1.0.
cached_weight(npapers) == <<1, 1>>

\* The set edges of get_cached_coauthorship_edges(authors) before it is
\* normalised: the rows selected for some author_id (author1 = author_id
\* OR author2 = author_id) whose two authors are in authors.
cached_edges(authors) ==
    {coauth_edge(r[1], r[2], cached_weight(r[3])) :
        r \in {x \in coauthorships :
                 /\ \E author_id \in authors : x[1] = author_id \/ x[2] = author_id
                 /\ x[1] \in authors /\ x[2] \in authors}}

\* The set edges of get_coauthorship_edges(authors) before it is
\* normalised: for each author_id the join of authorships with itself
\* gives one row per paper shared with another author (b.author_id !=
\* author_id); the rows of a co-author in authors are counted.
counted_edges(authors) ==
    {coauth_edge(p[1], p[2], log_weight(SharedPapers(authorships, p[1], p[2]))) :
        p \in {q \in authors \X authors :
                 q[1] # q[2] /\ SharedPapers(authorships, q[1], q[2]) >= 1}}

\* normalize_edges on a set: the elements are read in the iteration order
\* of the set.
normalize_edge_set(E) == normalize_edges(DictKeys(E))

\* get_cached_coauthorship_edges(authors)
get_cached_coauthorship_edges(authors) ==
    LET pre == cached_edges(authors)
        res == normalize_edge_set(pre)
    IN  [op |-> "get_cached_coauthorship_edges", arg |-> authors, pre |-> pre,
         status |-> res.status, out |-> res.out, all_authors |-> {}, auth_edges |-> {}]

\* get_coauthorship_edges(authors)
get_coauthorship_edges(authors) ==
    LET pre == counted_edges(authors)
        res == normalize_edge_set(pre)
    IN  [op |-> "get_coauthorship_edges", arg |-> authors, pre |-> pre,
         status |-> res.status, out |-> res.out, all_authors |-> {}, auth_edges |-> {}]

\* get_authorship_edges(papers_authors): (doc_id, author, 1.0) for every
\* author of every paper.
get_authorship_edges(papers) ==
    UNION {{<<doc_id, author, <<1, 1>>>> : author \in get_authors(doc_id)} :
             doc_id \in papers}

\* get_authors_layer(papers): the authors of the papers, their cached
\* co-authorship edges and the authorship edges.
get_authors_layer(papers) ==
    LET all_authors == UNION {get_authors(paperid) : paperid \in papers}
        coauth == get_cached_coauthorship_edges(all_authors)
    IN  [coauth EXCEPT !.op = "get_authors_layer", !.arg = papers,
                       !.all_authors = all_authors,
                       !.auth_edges = get_authorship_edges(papers)]

NoEdges == [op |-> "none", arg |-> {}, pre |-> {}, status |-> "none", out |-> <<>>,
            all_authors |-> {}, auth_edges |-> {}]

\* The rows the cache may hold for table: for each pair of authors who share
\* k >= 1 papers the row (a, b, k), the row (b, a, k), or both.
CachedRows(table) ==
    {<<p[1], p[2], SharedPapers(table, p[1], p[2])>> :
        p \in {q \in AuthorIds \X AuthorIds :
                 q[1] # q[2] /\ SharedPapers(table, q[1], q[2]) >= 1}}

CachedTables(table) ==
    {c \in SUBSET CachedRows(table) :
        \A r \in CachedRows(table) : r \in c \/ <<r[2], r[1], r[3]>> \in c}

InitCoauth ==
    /\ authorships \in SUBSET (PaperIds \X AuthorIds)
    /\ coauthorships \in CachedTables(authorships)
    /\ cres = NoEdges

\* get_authors_layer(papers)
GetAuthorsLayer(papers) ==
    /\ cres.op = "none"
    /\ cres' = get_authors_layer(papers)
    /\ UNCHANGED <<authorships, coauthorships>>

\* get_cached_coauthorship_edges(authors)
GetCachedCoauthorshipEdges(authors) ==
    /\ cres.op = "none"
    /\ cres' = get_cached_coauthorship_edges(authors)
    /\ UNCHANGED <<authorships, coauthorships>>

\* get_coauthorship_edges(authors)
GetCoauthorshipEdges(authors) ==
    /\ cres.op = "none"
    /\ cres' = get_coauthorship_edges(authors)
    /\ UNCHANGED <<authorships, coauthorships>>

NextCoauth ==
    \/ \E papers \in SUBSET PaperIds : GetAuthorsLayer(papers)
    \/ \E authors \in SUBSET AuthorIds : GetCachedCoauthorshipEdges(authors)
    \/ \E authors \in SUBSET AuthorIds : GetCoauthorshipEdges(authors)

IdleCoauth ==
    /\ authorships = {}
    /\ coauthorships = {}
    /\ cres = NoEdges

----------------------------------------------------------------------------
(* Claims on the authors layer *)

\* C12 (as stated): in the authors layer of get_authors_layer every
\* co-authorship edge between two authors who share k >= 1 papers has the
\* weight 1 + ln(k) before normalisation.
C12_CoauthorWeightIsOnePlusLogShared ==
    cres.op = "get_authors_layer" =>
        \A e \in cres.pre : e[3] = log_weight(SharedPapers(authorships, e[1], e[2]))

\* The unordered pairs of the edges at the places of the list out.
EdgePairs(out) == {{out[i][1], out[i][2]} : i \in 1..Len(out)}

\* C18: the co-authorship edge list returned for an author set A, by
\* get_cached_coauthorship_edges or by get_coauthorship_edges, holds at
\* most one edge per unordered author pair: every edge (a1, a2, w) has
\* a1 < a2 and a1, a2 both in A, and no two edges are on the same pair
\* {a1, a2}, whichever of the two authors' rows produced the edge.  Every
\* pair of authors of A that share a paper has its edge.
C18_OneEdgePerAuthorPair ==
    cres.op \in {"get_cached_coauthorship_edges", "get_coauthorship_edges"} =>
        /\ cres.status = "ok"
        /\ \A i \in 1..Len(cres.out) :
              /\ cres.out[i][1] < cres.out[i][2]
              /\ cres.out[i][1] \in cres.arg
              /\ cres.out[i][2] \in cres.arg
        /\ \A i, j \in 1..Len(cres.out) :
              {cres.out[i][1], cres.out[i][2]} = {cres.out[j][1], cres.out[j][2]}
              => i = j
        /\ EdgePairs(cres.out) =
              {{a, b} : <<a, b>> \in {q \in cres.arg \X cres.arg :
                  q[1] < q[2] /\ SharedPapers(authorships, q[1], q[2]) >= 1}}

\* C18 witness: the cache holds the pair of authors 1 and 2 in both orders,
\* and the list returned for {1, 2} has one edge.
C18_Witness ==
    /\ cres.op = "get_cached_coauthorship_edges"
    /\ cres.arg = {1, 2}
    /\ \E k \in 1..MaxPapers : {<<1, 2, k>>, <<2, 1, k>>} \subseteq coauthorships
    /\ Len(cres.out) = 1

----------------------------------------------------------------------------
(* ModelBuilder.get_relevant_topics(doc_topics, ntop=None, above=None).    *)
(* An optional argument is <<>> for None and <<v>> for the value v; topic  *)
(* indices count from 0.                                                   *)

MaxTopics == 3

None == <<>>

\* The truth value Python gives an optional number: None and 0 are false.
truthy(x) == x # None /\ x[1] # 0

\* np.argsort(x) on the indices S: ascending values, equal values in
\* index order.
RECURSIVE argsort(_, _)
argsort(x, S) ==
    IF S = {} THEN <<>>
    ELSE LET i == CHOOSE j \in S :
                    \A k \in S : x[j] < x[k] \/ (x[j] = x[k] /\ j <= k)
         IN  <<i - 1>> \o argsort(x, S \ {i})

\* s[::-1]
reversed(s) == [i \in 1..Len(s) |-> s[Len(s) + 1 - i]]

\* s[:n] for n >= 0
prefix(s, n) == SubSeq(s, 1, IF n < Len(s) THEN n ELSE Len(s))

\* np.where(x > above)[0]: the indices, ascending.
RECURSIVE where_above(_, _, _)
where_above(x, above, n) ==
    IF n = 0 THEN <<>>
    ELSE LET rest == where_above(x, above, n - 1)
         IN  IF x[n] > above THEN Append(rest, n - 1) ELSE rest

\* get_relevant_topics(x, ntop, above)
get_relevant_topics(x, ntop, above) ==
    IF truthy(ntop)
    THEN [op |-> "get_relevant_topics", ntop |-> ntop, above |-> above,
          status |-> "ok",
          out |-> prefix(reversed(argsort(x, 1..Len(x))), ntop[1])]
    ELSE IF truthy(above)
    THEN [op |-> "get_relevant_topics", ntop |-> ntop, above |-> above,
          status |-> "ok", out |-> where_above(x, above[1], Len(x))]
    ELSE [op |-> "get_relevant_topics", ntop |-> ntop, above |-> above,
          status |-> "TypeError", out |-> <<>>]

NoTopics == [op |-> "none", ntop |-> None, above |-> None, status |-> "none",
             out |-> <<>>]

\* The values of ntop and of above: None or a number.
NtopValues == {None} \cup {<<n>> : n \in 0..MaxTopics}
AboveValues == {None} \cup {<<v>> : v \in 0..MaxWeight}

InitTopics ==
    /\ doc_topics \in SeqsUpTo(0..MaxWeight, MaxTopics)
    /\ tres = NoTopics

\* get_relevant_topics(doc_topics, ntop, above)
GetRelevantTopics(ntop, above) ==
    /\ tres.op = "none"
    /\ tres' = get_relevant_topics(doc_topics, ntop, above)
    /\ UNCHANGED doc_topics

NextTopics == \E ntop \in NtopValues, above \in AboveValues : GetRelevantTopics(ntop, above)

IdleTopics ==
    /\ doc_topics = <<>>
    /\ tres = NoTopics

----------------------------------------------------------------------------
(* Claims on get_relevant_topics *)

\* C13 (as stated): a call that supplies both ntop and above, or neither,
\* fails with an error; only a call that supplies exactly one of the two
\* returns a selection.
C13_BothOrNeitherFailsFast ==
    tres.op = "get_relevant_topics" =>
        /\ (tres.ntop # None /\ tres.above # None) => tres.status = "TypeError"
        /\ (tres.ntop = None /\ tres.above = None) => tres.status = "TypeError"
        /\ tres.status = "ok" => (tres.ntop = None) # (tres.above = None)

(* Claim on the lifetime of the GraphBuilder index *)

\* C17, as stated: the index is read-only after construction. After any
\* follow_nodes or subgraph call, self.citing and self.cited have the keys
\* and the lists they had right after __init__.
C17_IndexIsReadOnlyAfterInit ==
    call.op # "none" =>
        /\ citing = GraphBuilder_citing(edges, Len(edges))
        /\ cited = GraphBuilder_cited(edges, Len(edges))

----------------------------------------------------------------------------

(* Claim on the density diagnostic of the layer builder *)

\* C19, as stated: the density diagnostic never influences control flow. For
\* every set of stored rows, the empty one included, the builder returns its
\* (nodes, pair edges, publication edges) result.
C19_DensityNeverStopsTheBuilder ==
    lres.status # "none" => lres.status = "ok"

----------------------------------------------------------------------------

(* ModelBuilder.get_pubs_layer.  The search index and the store are       *)
(* outside the program: the index returns the matched documents, the      *)
(* table graph holds the citation relation that __init__ hands to         *)
(* GraphBuilder.  The dataset has no citation contexts (self.use_contexts *)
(* is False), so every citation edge gets the weight 1.0.                 *)

MaxDocs == 3
MaxCitations == 2
MaxHops == 2

\* The publication ids of one Python type.
DocIds(kind) == {<<kind, k>> : k \in 1..MaxDocs}

\* The contents of table graph: distinct rows (citing, cited), the ids of
\* one Python type, read in one fixed order.
GraphRows(kind) ==
    {DictKeys(T) : T \in {R \in SUBSET (DocIds(kind) \X DocIds(kind)) :
                             Cardinality(R) <= MaxCitations}}

\* The documents index.search returns: at most two, of one Python type.
SearchHits(kind) == {D \in SUBSET DocIds(kind) : Cardinality(D) <= 2}

\* The exclude lists a caller passes: no id or one id, of either type.
ExcludeLists == {{}} \cup {{x} : x \in DocIds("int") \cup DocIds("str")}

\* new_nodes -= exclude_list, left out.
hop_keep_all(followed, exclude) == followed

\* new_nodes -= exclude_list
hop_keep(followed, exclude) == followed \ exclude

\* get_context_based_weights(query, nodes, edges) when not self.use_contexts
get_context_based_weights(E) == {<<e[1], e[2], <<1, 1>>>> : e \in E}

NoPubs == [status |-> "none", nodes |-> {}, weighted_edges |-> {}, doc_ids |-> {}]

\* ModelBuilder.__init__ has built self.edges_lookup from table graph;
\* get_pubs_layer has searched the index and has set nodes and new_nodes
\* (one set under two names) to the string forms of the hits.
InitPubs ==
    /\ \E kind \in {"int", "str"} :
          /\ graph_rows \in GraphRows(kind)
          /\ docs \in SearchHits(kind)
    /\ edges_lookup = [citing |-> GraphBuilder_citing(graph_rows, Len(graph_rows)),
                       cited |-> GraphBuilder_cited(graph_rows, Len(graph_rows))]
    /\ exclude_list \in ExcludeLists
    /\ n_hops \in 0..MaxHops
    /\ hop_nodes = {str(doc) : doc \in docs}
    /\ hop_new_nodes = hop_nodes
    /\ hop = 0
    /\ visits = <<>>
    /\ pubs_res = NoPubs

\* One iteration of the loop "for h in xrange(n_hops)": follow_nodes reads
\* the index under every node of the frontier, the exclude list is taken
\* from the result, and the rest is added to nodes.  visits records, for
\* each iteration, the frontier handed to follow_nodes and the value of
\* nodes before the update.
Hop ==
    /\ pubs_res.status = "none"
    /\ hop < n_hops
    /\ LET followed == follow_nodes(edges_lookup.citing, edges_lookup.cited,
                                    hop_new_nodes)
           kept == hop_keep(followed, exclude_list)
       IN  /\ hop_new_nodes' = kept
           /\ hop_nodes' = hop_nodes \cup kept
    /\ edges_lookup' = [citing |-> DictTouch(edges_lookup.citing, hop_new_nodes),
                        cited |-> DictTouch(edges_lookup.cited, hop_new_nodes)]
    /\ visits' = Append(visits, [frontier |-> hop_new_nodes, before |-> hop_nodes])
    /\ hop' = hop + 1
    /\ UNCHANGED <<graph_rows, docs, exclude_list, n_hops, pubs_res>>

\* The rest of get_pubs_layer after the loop: the scores of the nodes are
\* asked from the index, subgraph(nodes) gives the citation edges, each edge
\* gets its weight, and (nodes, weighted_edges) is returned.
ReturnPubs ==
    /\ pubs_res.status = "none"
    /\ hop = n_hops
    /\ pubs_res' = [status |-> "ok", nodes |-> hop_nodes,
                    weighted_edges |-> get_context_based_weights(
                        subgraph(edges_lookup.citing, edges_lookup.cited, hop_nodes)),
                    doc_ids |-> hop_nodes]
    /\ edges_lookup' = [citing |-> DictTouch(edges_lookup.citing, hop_nodes),
                        cited |-> DictTouch(edges_lookup.cited, hop_nodes)]
    /\ UNCHANGED <<graph_rows, docs, exclude_list, n_hops, hop_nodes,
                   hop_new_nodes, hop, visits>>

NextPubs ==
    \/ Hop
    \/ ReturnPubs

\* get_pubs_layer is not in use.
IdlePubs ==
    /\ graph_rows = <<>>
    /\ docs = {}
    /\ edges_lookup = [citing |-> EmptyDict, cited |-> EmptyDict]
    /\ exclude_list = {}
    /\ n_hops = 0
    /\ hop_nodes = {}
    /\ hop_new_nodes = {}
    /\ hop = 0
    /\ visits = <<>>
    /\ pubs_res = NoPubs

----------------------------------------------------------------------------
(* Claims on the hop loop of get_pubs_layer *)

\* C15, as stated: a node that is already in the accumulated node set is
\* never part of a later hop's frontier. At every hop after the first, the
\* frontier handed to follow_nodes is disjoint from the nodes accumulated
\* before the merge of the hop before, and no node is in the frontier of two
\* hops (each node is expanded at most once).
C15_NoNodeIsExpandedTwice ==
    /\ \A k \in 2..Len(visits) :
          visits[k].frontier \cap visits[k - 1].before = {}
    /\ \A j, k \in 1..Len(visits) :
          j < k => visits[j].frontier \cap visits[k].frontier = {}

\* u and v are the two ends of an edge of E, in either direction.
Adjacent(E, u, v) ==
    \E i \in 1..Len(E) : E[i] = <<u, v>> \/ E[i] = <<v, u>>

\* The nodes reachable from a seed of S by a path of at most H edges of E,
\* followed in either direction, all of whose nodes lie outside X: a path of
\* no edge is a seed outside X, and a path of at most H edges is a path of
\* at most H - 1 edges, or one prolonged by an edge to a node outside X.
RECURSIVE Reachable(_, _, _, _)
Reachable(E, S, H, X) ==
    IF H = 0 THEN S \ X
    ELSE LET near == Reachable(E, S, H - 1, X)
         IN  near \cup {v \in AllIds(E) \ X : \E u \in near : Adjacent(E, u, v)}

\* The citation relation with every id in string form.
StrRows(E) == [i \in 1..Len(E) |-> <<str(E[i][1]), str(E[i][2])>>]

\* C16 (amended): for every citation relation, seed set S and hop count
\* H >= 0, with the ids of the relation and of the seeds taken in string
\* form and S disjoint from the exclude set X, the loop runs exactly H
\* iterations, the accumulated node set never shrinks, after h iterations it
\* is the set of nodes reachable from some seed by a path of at most h edges
\* (in either direction) all of whose nodes lie outside X, and the node set
\* returned is the one for h = H; it contains every seed and no id of X.
C16_HopLoopGivesNodesWithinHEdges ==
    LET S == {str(doc) : doc \in docs}
        E == StrRows(graph_rows)
    IN  S \cap exclude_list = {} =>
            /\ hop <= n_hops
            /\ Len(visits) = hop
            /\ \A k \in 1..Len(visits) :
                  /\ S \subseteq visits[k].before
                  /\ visits[k].before \subseteq
                        (IF k < Len(visits) THEN visits[k + 1].before ELSE hop_nodes)
            /\ hop_nodes = Reachable(E, S, hop, exclude_list)
            /\ pubs_res.status = "ok" =>
                  /\ hop = n_hops
                  /\ pubs_res.nodes = Reachable(E, S, n_hops, exclude_list)
                  /\ S \subseteq pubs_res.nodes
                  /\ pubs_res.nodes \cap exclude_list = {}

\* The loop has run MaxHops times and has returned; a node that is not
\* excluded lies within MaxHops edges of a seed, but only through the
\* excluded id, and is left out.
C16_Witness ==
    LET S == {str(doc) : doc \in docs}
        E == StrRows(graph_rows)
    IN  /\ pubs_res.status = "ok"
        /\ n_hops = MaxHops
        /\ S # {}
        /\ S \cap exclude_list = {}
        /\ \E n \in Reachable(E, S, n_hops, {}) :
              n \notin exclude_list /\ n \notin pubs_res.nodes

\* C16, as stated: with the relation, the seeds and X as they are given, the
\* node set returned is the set of nodes reachable from some seed by a path
\* of at most H edges all of whose nodes lie outside X; it contains every
\* seed and no id of X.
C16_HopLoopAsStated ==
    docs \cap exclude_list = {} =>
        (pubs_res.status = "ok" =>
            /\ pubs_res.nodes = Reachable(graph_rows, docs, n_hops, exclude_list)
            /\ docs \subseteq pubs_res.nodes
            /\ pubs_res.nodes \cap exclude_list = {})

----------------------------------------------------------------------------

----------------------------------------------------------------------------
(* Specifications *)

InitG ==
    /\ InitGraph
    /\ IdleNorm /\ IdleRules /\ IdleLayer /\ IdleAssemble
    /\ IdleCoauth /\ IdleTopics /\ IdlePubs
NextG ==
    /\ NextGraph
    /\ UNCHANGED <<nvars, rvars, lvars, avars, cvars, tvars, pvars>>
SpecGraph == InitG /\ [][NextG]_vars

InitN ==
    /\ InitNorm
    /\ IdleGraph /\ IdleRules /\ IdleLayer /\ IdleAssemble
    /\ IdleCoauth /\ IdleTopics /\ IdlePubs
NextN ==
    /\ NextNorm
    /\ UNCHANGED <<gvars, rvars, lvars, avars, cvars, tvars, pvars>>
SpecNorm == InitN /\ [][NextN]_vars

InitR ==
    /\ InitRules
    /\ IdleGraph /\ IdleNorm /\ IdleLayer /\ IdleAssemble
    /\ IdleCoauth /\ IdleTopics /\ IdlePubs
NextR ==
    /\ NextRules
    /\ UNCHANGED <<gvars, nvars, lvars, avars, cvars, tvars, pvars>>
SpecRules == InitR /\ [][NextR]_vars

InitL ==
    /\ InitLayer
    /\ IdleGraph /\ IdleNorm /\ IdleRules /\ IdleAssemble
    /\ IdleCoauth /\ IdleTopics /\ IdlePubs
NextL ==
    /\ NextLayer
    /\ UNCHANGED <<gvars, nvars, rvars, avars, cvars, tvars, pvars>>
SpecLayer == InitL /\ [][NextL]_vars

InitA ==
    /\ InitAssemble
    /\ IdleGraph /\ IdleNorm /\ IdleRules /\ IdleLayer
    /\ IdleCoauth /\ IdleTopics /\ IdlePubs
NextA ==
    /\ NextAssemble
    /\ UNCHANGED <<gvars, nvars, rvars, lvars, cvars, tvars, pvars>>
SpecAssemble == InitA /\ [][NextA]_vars

InitC ==
    /\ InitCoauth
    /\ IdleGraph /\ IdleNorm /\ IdleRules /\ IdleLayer
    /\ IdleAssemble /\ IdleTopics /\ IdlePubs
NextC ==
    /\ NextCoauth
    /\ UNCHANGED <<gvars, nvars, rvars, lvars, avars, tvars, pvars>>
SpecCoauth == InitC /\ [][NextC]_vars

InitT ==
    /\ InitTopics
    /\ IdleGraph /\ IdleNorm /\ IdleRules /\ IdleLayer
    /\ IdleAssemble /\ IdleCoauth /\ IdlePubs
NextT ==
    /\ NextTopics
    /\ UNCHANGED <<gvars, nvars, rvars, lvars, avars, cvars, pvars>>
SpecTopics == InitT /\ [][NextT]_vars

InitP ==
    /\ InitPubs
    /\ IdleGraph /\ IdleNorm /\ IdleRules /\ IdleLayer
    /\ IdleAssemble /\ IdleCoauth /\ IdleTopics
NextP ==
    /\ NextPubs
    /\ UNCHANGED <<gvars, nvars, rvars, lvars, avars, cvars, tvars>>
SpecPubs == InitP /\ [][NextP]_vars

====
